---- MODULE Spec2Model ----
(***************************************************************************)
(* WiiMote virtual controller server (src/WiiMote-exe/exe.wiimote.py).     *)
(*                                                                         *)
(* The server is a set of threads sharing four module-level dictionaries   *)
(* (controllers, last_seen, pkt_count, hz_est) without any lock.           *)
(* pair_server and phone_listener are modelled by a program counter and    *)
(* their local variables, one action per shared access (or per run of      *)
(* lines up to the next shared access); a cleanup_loop pass and a          *)
(* disconnect_slot call are one action each.  Time is time.time() in       *)
(* whole seconds.                                                          *)
(*                                                                         *)
(* A ControllerState object that has been removed from `controllers` may   *)
(* still be referenced by a thread (its local `c`).  plive / llive say     *)
(* whether the object a thread holds is still the one stored in the slot:  *)
(* writes through a stale reference do not reach the registry.             *)
(***************************************************************************)
EXTENDS Integers, FiniteSets, Sequences, TLC

\* ---------------------------------------------------------------- constants
MAX_CONTROLLERS == 4

TIMEOUT_SEC == 2

\* 1 / 500 and 1 / 40 of a second, in milliseconds
DT_MIN == 2

DT_MAX == 25

\* 1.2 m/s^2, in mm/s^2
ACC_G_TOL == 1200

\* 0.03 rad, in microradians
DRIFT_ERR_THRESH == 30000

\* 1 - CF_ALPHA = 0.015, in thousandths
DRIFT_STEP == 15

\* 0.60 s, in milliseconds
RECENTER_HOLD_SEC == 600

\* 2.3 m/s^2, in mm/s^2
SWING_THRESHOLD == 2300

\* 0.25 s, in milliseconds
SWING_COOLDOWN == 250

\* INVERT_RX switched off
InvertRxOff == FALSE

\* line 52
INVERT_RX == TRUE

INVERT_RY == TRUE

\* the 9.81 of update_motion, in mm/s^2
Gravity == 9810

\* `time.time() + 9999`: how far past the capture home_hold is set, in seconds
HoldSentinel == 9999

\* compute_axes: its bounds of dt in milliseconds, DZ in mrad/s, the bounds of
\* yaw and pitch in microradians, the full deflection of a stick
AxesDtMin == 1

AxesDtMax == 50

DZ == 15

YawLimit == 600000

PitchLimit == 450000

StickMax == 32767

\* the threshold of maybe_deg_to_rad, 20, in thousandths
DegThreshold == 20000

\* pi / 2 in microradians
HalfPi == 1570796

\* the buttons of a control line, in the order of the dictionary
WII_TO_BRIDGE ==
    << <<"A", "A">>, <<"B", "B">>, <<"1", "X">>, <<"2", "Y">>, <<"+", "START">>,
       <<"-", "BACK">>, <<"HOME", "GUIDE">>, <<"UP", "UP">>, <<"DOWN", "DOWN">>,
       <<"LEFT", "LEFT">>, <<"RIGHT", "RIGHT">> >>

\* ------------------------------------------------------------------- bounds
\* devices that send datagrams
NumDevices == 2

\* source addresses (and display names) a device may use
NumAddrs == 2

\* datagrams received and Disconnect clicks in one run
MaxEvents == 3

\* seconds the clock advances in one run
MaxTicks == 3

\* ------------------------------------------------------------------ domains
Slots == 0 .. (MAX_CONTROLLERS - 1)

\* Python's None as the value of `slot` / `free`
NoSlot == 0 - 1

Devices == 1 .. NumDevices

Addrs == 1 .. NumAddrs

\* time.time() is seconds since 1970: far more than TIMEOUT_SEC past 0.0
ClockStart == TIMEOUT_SEC + 1

ClockEnd == ClockStart + MaxTicks

\* a gyro or accel sample, {"x": .., "y": .., "z": ..}; gyro in mrad/s, accel
\* in mm/s^2
Vec(x, y, z) == [x |-> x, y |-> y, z |-> z]

ZeroVec == Vec(0, 0, 0)

\* home_hold = None
NoHold == 0 - 1

\* MotionState(): times in milliseconds, angles in microradians
NewMotion ==
    [last_ts |-> 0, pitch |-> 0, yaw |-> 0, pitch0 |-> 0, yaw0 |-> 0,
     home_hold |-> NoHold, last_swing |-> 0]

\* controllers[i] = None; buttons is the set of the keys that map to 1
None ==
    [device_id |-> 0, username |-> 0, addr |-> 0, token |-> 0,
     buttons |-> {}, gyro |-> ZeroVec, accel |-> ZeroVec, motion |-> NewMotion]

\* no datagram sent
NoMsg == [type |-> "NONE", slot |-> NoSlot, token |-> 0, reason |-> "", to |-> 0]

\* no request / no telemetry datagram in hand
NoReq == [kind |-> "none", device_id |-> 0, username |-> 0, addr |-> 0]

NoTel ==
    [kind |-> "none", device_id |-> 0, token |-> 0, addr |-> 0,
     buttons |-> {}, gyro |-> ZeroVec, accel |-> ZeroVec, ts |-> 0]

\* the PAIR_REQUEST datagrams of the run: device d, from endpoint e, which
\* names itself e
PairRequests ==
    {[kind |-> "request", device_id |-> d, username |-> e, addr |-> e] :
        d \in Devices, e \in Addrs}

\* a token no session was ever given: secrets.token_hex(16) returns 128 random
\* bits, so a datagram carries a token of a session only after a PAIR_ACCEPT
\* has disclosed it
Forged == 0 - 2

\* the telemetry datagrams of the run: device d with one of the tokens `toks`,
\* from endpoint e, with button A released (e = 1) or pressed, the sensors at
\* rest (the sample a new session holds is the one of e = 1)
Telemetry(toks) ==
    {[kind |-> "telemetry", device_id |-> d, token |-> tok, addr |-> e,
      buttons |-> IF e = 1 THEN {} ELSE {"A"}, gyro |-> ZeroVec,
      accel |-> ZeroVec, ts |-> 0] :
        d \in Devices, tok \in toks, e \in Addrs}

VARIABLES
    clock,        \* time.time()
    controllers,  \* slot -> ControllerState or None
    last_seen,    \* slot -> time of last authorized activity, 0 = never
    pkt_count,    \* slot -> packets accepted in the current statistics window
    hz_est,       \* slot -> <<packets, seconds>> of the last window (a quotient)
    ppc,          \* pair_server: position
    preq,         \* pair_server: the request being handled
    pslot,        \* pair_server: `slot` (refresh) or `free` (create)
    plive,        \* pair_server: its `c` is still controllers[pslot]
    ptoken,       \* pair_server: c.token of the object it holds
    psent,        \* pair_server: datagrams sent for the request in hand
    reply,        \* pair_server: the datagram it sent for the request in hand
    next_token,   \* secrets.token_hex(16): the next value it returns
    disclosed,    \* the tokens pair_server has sent in a PAIR_ACCEPT
    lpc,          \* phone_listener: position
    lmsg,         \* phone_listener: the datagram being handled
    lslot,        \* phone_listener: `slot`
    llive,        \* phone_listener: its `c` is still controllers[lslot]
    lcnt,         \* phone_listener: pkt_count[slot] as loaded by `+= 1`
    nevents,      \* datagrams received and Disconnect clicks so far
    active_at,    \* history: slot -> time its session was created, refreshed
                  \* by pairing or touched by telemetry last (0 = no session)
    stamps,       \* history: slot -> client timestamps of the last two
                  \* datagrams stored in it, <<the one before, the last>>
    pnow,         \* pair_server: the time.time() it is about to store
    lnow,         \* phone_listener: the time.time() it is about to store
    active,       \* ACTIVE_SLOT_FOR_BRIDGE (1-based)
    line,         \* bridge_loop: the last control line it sent to the driver
    bticks,       \* bridge_loop: iterations of its loop so far
    bslot,        \* bridge_loop: `slot` of its last iteration
    nlines,       \* control lines sent to the driver so far
    captures,     \* history: slot -> recenter captures since HOME was last
                  \* released (as stored by phone_listener or as seen by
                  \* bridge_loop) or since the start
    nwaits,       \* delays so far in the bridge scenario
    ms,           \* time.time(): the milliseconds past the second `clock`
    nswings,      \* history: slot -> swings bridge_loop has triggered
    arrived,      \* history: when the last accepted telemetry arrived (ms),
                  \* 0 = none yet
    pace,         \* how long bridge_loop's wait at the end of a tick lasts in
                  \* this run (ms), 0 = not fixed
    axes,         \* bridge_loop: <<RX, RY>> as compute_axes returned them last
    called,       \* history: what ran last on the motion state
    stop_evt,     \* threading.Event: set or not
    tpc,          \* thread of start_threads -> where it is: at the test of
                  \* its loop ("top"), in the loop ("body") or out of it
    last_hz_t,    \* _last_hz_t
    pairing_state,\* client: self.pairing_state
    paired,       \* client: self.paired
    ctoken,       \* client: self.token, 0 = None
    cwait,        \* client: position of its _pair_wait_response thread
    deadline,     \* client: `deadline` of that thread (ms)
    nrequests,    \* history: PAIR_REQUEST datagrams the client has sent
    spc,          \* stats_loop: position
    sslot,        \* stats_loop: `s` of its for loop
    sdt,          \* stats_loop: `dt`
    bpc,          \* bridge_loop: position ("top", or "hold": it has its `c`)
    blive,        \* bridge_loop: its `c` is still controllers[bslot]
    bc            \* bridge_loop: the object its `c` refers to once it is no
                  \* longer in the registry

registry == <<controllers, last_seen, pkt_count, hz_est>>

pairVars == <<ppc, preq, pslot, plive, ptoken, psent, reply, next_token, disclosed>>

listenerVars == <<lpc, lmsg, lslot, llive, lcnt>>

nowVars == <<pnow, lnow>>

bridgeVars ==
    <<active, line, bticks, bslot, nlines, captures, nwaits, ms, nswings, arrived,
      pace, axes, called>>

loopVars == <<stop_evt, tpc, last_hz_t>>

clientVars == <<pairing_state, paired, ctoken, cwait, deadline, nrequests>>

statsVars == <<spc, sslot, sdt>>

holdVars == <<bpc, blive, bc>>

vars ==
    <<clock, controllers, last_seen, pkt_count, hz_est, ppc, preq, pslot, plive,
      ptoken, psent, reply, next_token, disclosed, lpc, lmsg, lslot, llive, lcnt,
      nevents, active_at, stamps, pnow, lnow, active, line, bticks, bslot,
      nlines, captures, nwaits, ms, nswings, arrived, pace, axes, called,
      stop_evt, tpc, last_hz_t, pairing_state, paired, ctoken, cwait, deadline,
      nrequests, spc, sslot, sdt, bpc, blive, bc>>

\* ------------------------------------------------------------------ helpers
Min(S) == CHOOSE x \in S : \A y \in S : x <= y

\* FindByDevice with a comparison that never succeeds
FindByDeviceNever(ctrl, d) == NoSlot

\* lines 293-294 / 354-357: first slot whose session has this device_id
FindByDevice(ctrl, d) ==
    LET hits == {s \in Slots : ctrl[s] # None /\ ctrl[s].device_id = d}
    IN  IF hits = {} THEN NoSlot ELSE Min(hits)

\* FirstFree scanning the slots downwards
FirstFreeLast(ctrl) ==
    LET empty == {i \in Slots : ctrl[i] = None}
    IN  IF empty = {} THEN NoSlot ELSE CHOOSE x \in empty : \A y \in empty : x >= y

\* FirstFree with slot 0 as the default of next()
FirstFreeOrZero(ctrl) ==
    LET empty == {i \in Slots : ctrl[i] = None}
    IN  IF empty = {} THEN 0 ELSE Min(empty)

\* line 307: next((i for i in range(MAX_CONTROLLERS) if controllers[i] is None), None)
FirstFree(ctrl) ==
    LET empty == {i \in Slots : ctrl[i] = None}
    IN  IF empty = {} THEN NoSlot ELSE Min(empty)

\* RefreshToken minting a token on every refresh
RefreshTokenAlways(tok, fresh) == fresh

\* line 297: c.token = c.token or secrets.token_hex(16)
RefreshToken(tok, fresh) == IF tok # 0 THEN tok ELSE fresh

\* IsStale with the operands of the subtraction swapped
IsStaleSwapped(ctrl, seen, now, s) == ctrl[s] # None /\ (seen[s] - now > TIMEOUT_SEC)

\* line 377: the eviction test of one slot
IsStale(ctrl, seen, now, s) == ctrl[s] # None /\ (now - seen[s] > TIMEOUT_SEC)

\* TokenOk without the comparison of the tokens
TokenOkAny(c, tok) == c # None

\* TokenOk that only asks for some token
TokenOkNonEmpty(c, tok) == c # None /\ tok # 0

\* lines 361-362: `not c or c.token != token` is false
TokenOk(c, tok) == c # None /\ c.token = tok

\* the references of pair_server, phone_listener and bridge_loop after the
\* slots in `gone` have been emptied
StaleRefs(gone) ==
    /\ plive' = IF pslot \in gone THEN FALSE ELSE plive
    /\ llive' = IF lslot \in gone THEN FALSE ELSE llive
    /\ blive' = IF bpc = "hold" /\ bslot \in gone THEN FALSE ELSE blive
    /\ bc' = IF bpc = "hold" /\ blive /\ bslot \in gone THEN controllers[bslot] ELSE bc

\* LoadActive without the clamp
LoadActiveRaw(val) == val

\* line 121 / 704: max(1, min(MAX_CONTROLLERS, val))
LoadActive(val) ==
    IF val < 1 THEN 1 ELSE IF val > MAX_CONTROLLERS THEN MAX_CONTROLLERS ELSE val

\* bridge_loop sent nothing
NoLine == <<>>

\* ---------------------------------------------------------------- initially
\* lines 810-818: the threads of start_threads
Threads ==
    {"discovery_loop", "pair_server", "phone_listener", "cleanup_loop",
     "stats_loop", "bridge_loop"}

\* thread t has finished an iteration: it is at the test of its loop again
Back(t) == IF tpc[t] = "body" THEN [tpc EXCEPT ![t] = "top"] ELSE tpc

\* every variable but those of the registry, the token counter and the pace
InitLocals ==
    /\ clock = ClockStart
    /\ hz_est = [i \in Slots |-> <<0, 1>>]
    /\ ppc = "recv"
    /\ preq = NoReq
    /\ pslot = NoSlot
    /\ plive = FALSE
    /\ ptoken = 0
    /\ psent = 0
    /\ reply = NoMsg
    /\ lpc = "recv"
    /\ lmsg = NoTel
    /\ lslot = NoSlot
    /\ llive = FALSE
    /\ lcnt = 0
    /\ nevents = 0
    /\ stamps = [i \in Slots |-> <<0, 0>>]
    /\ pnow = 0
    /\ lnow = 0
    /\ line = NoLine
    /\ bticks = 0
    /\ bslot = NoSlot
    /\ nlines = 0
    /\ captures = [i \in Slots |-> 0]
    /\ nwaits = 0
    /\ ms = 0
    /\ nswings = [i \in Slots |-> 0]
    /\ axes = <<0, 0>>
    /\ called = "nothing"
    /\ stop_evt = FALSE
    /\ tpc = [t \in Threads |-> "top"]
    /\ last_hz_t = ClockStart
    /\ pairing_state = "NOT_PAIRED"
    /\ paired = FALSE
    /\ ctoken = 0
    /\ cwait = "none"
    /\ deadline = 0
    /\ nrequests = 0
    /\ spc = "wait"
    /\ sslot = 0
    /\ sdt = 0
    /\ bpc = "top"
    /\ blive = FALSE
    /\ bc = None

InitThreads ==
    /\ InitLocals
    /\ pace = 0
    /\ controllers = [i \in Slots |-> None]
    /\ last_seen = [i \in Slots |-> 0]
    /\ pkt_count = [i \in Slots |-> 0]
    /\ next_token = 1
    /\ disclosed = {}
    /\ active_at = [i \in Slots |-> 0]
    /\ arrived = 0

\* lines 102-109, 119-121: without a config file active_slot is 1
Init ==
    /\ InitThreads
    /\ active = LoadActive(1)

\* ------------------------------------------------------ the environment
\* one more datagram or click, of at most `budget` in a run
Event(budget) ==
    /\ nevents < budget
    /\ nevents' = nevents + 1

\* a second passes
Tick ==
    /\ clock < ClockEnd
    /\ clock' = clock + 1
    /\ UNCHANGED <<bridgeVars, loopVars, clientVars, statsVars, holdVars, nowVars, stamps, registry, active_at, pairVars,
                   listenerVars, nevents>>

\* ------------------------------------------------------------- pair_server
\* lines 299-301 / 318-320: the PAIR_ACCEPT datagram
PairAccept(slot, tok, addr) ==
    [type |-> "PAIR_ACCEPT", slot |-> slot, token |-> tok, reason |-> "", to |-> addr]

\* line 310: the PAIR_DENY datagram
PairDeny(addr) ==
    [type |-> "PAIR_DENY", slot |-> NoSlot, token |-> 0, reason |-> "NO_FREE_SLOTS",
     to |-> addr]

\* line 316: ControllerState(device_id, username, addr, token) with its defaults
NewController(req, tok) ==
    [device_id |-> req.device_id, username |-> req.username, addr |-> req.addr,
     token |-> tok, buttons |-> {}, gyro |-> ZeroVec, accel |-> ZeroVec,
     motion |-> NewMotion]

\* RefreshFields replacing the session by a new object that keeps the token
RefreshFieldsNew(c, req, fresh) == NewController(req, RefreshToken(c.token, fresh))

\* lines 295-297: the fields a refresh writes into the session it found
RefreshFields(c, req, fresh) ==
    [c EXCEPT !.username = req.username, !.addr = req.addr,
              !.token = RefreshToken(c.token, fresh)]

\* lines 273-297, 306-314: a PAIR_REQUEST with a non-empty device_id arrives.
\* Known device: its session is refreshed (295-297).  New device: the first
\* free slot is looked up (307), and without one PAIR_DENY is sent (310).
PairRecv(req) ==
    /\ ppc = "recv"
    /\ preq' = req
    /\ LET slot == FindByDevice(controllers, req.device_id)
           free == FirstFree(controllers)
       IN  IF slot # NoSlot
           THEN /\ controllers' =
                      [controllers EXCEPT
                          ![slot] = RefreshFields(controllers[slot], req, next_token)]
                /\ next_token' =
                      IF controllers'[slot].token = next_token
                      THEN next_token + 1 ELSE next_token
                /\ ppc' = "r_seen"
                /\ pslot' = slot
                /\ plive' = TRUE
                /\ ptoken' = controllers'[slot].token
                /\ psent' = 0
                /\ reply' = NoMsg
           ELSE IF free = NoSlot
           THEN /\ ppc' = "done"
                /\ pslot' = NoSlot
                /\ plive' = FALSE
                /\ ptoken' = 0
                /\ psent' = 1
                /\ reply' = PairDeny(req.addr)
                /\ UNCHANGED <<controllers, next_token>>
           ELSE /\ ppc' = "create"
                /\ pslot' = free
                /\ plive' = FALSE
                /\ ptoken' = 0
                /\ psent' = 0
                /\ reply' = NoMsg
                /\ UNCHANGED <<controllers, next_token>>
    /\ UNCHANGED <<bridgeVars, loopVars, clientVars, statsVars, holdVars, nowVars, stamps, clock, last_seen, pkt_count, hz_est, active_at, disclosed,
                   listenerVars>>

\* lines 298-303: last_seen[slot] = time.time(), then PAIR_ACCEPT with c.token
PairRefreshSeen ==
    /\ ppc = "r_seen"
    /\ last_seen' = [last_seen EXCEPT ![pslot] = clock]
    /\ active_at' = IF plive THEN [active_at EXCEPT ![pslot] = clock] ELSE active_at
    /\ reply' = PairAccept(pslot, ptoken, preq.addr)
    /\ disclosed' = disclosed \cup {ptoken}
    /\ psent' = psent + 1
    /\ ppc' = "done"
    /\ UNCHANGED <<bridgeVars, loopVars, clientVars, statsVars, holdVars, nowVars, stamps, clock, controllers, pkt_count, hz_est, preq, pslot, plive, ptoken,
                   next_token, listenerVars, nevents>>

\* line 316: controllers[free] = ControllerState(..., token=secrets.token_hex(16))
PairCreate ==
    /\ ppc = "create"
    /\ controllers' = [controllers EXCEPT ![pslot] = NewController(preq, next_token)]
    /\ next_token' = next_token + 1
    /\ active_at' = [active_at EXCEPT ![pslot] = clock]
    /\ ppc' = "c_seen"
    /\ UNCHANGED <<bridgeVars, loopVars, clientVars, statsVars, holdVars, nowVars, stamps, clock, last_seen, pkt_count, hz_est, preq, pslot, plive, ptoken,
                   psent, reply, disclosed, listenerVars, nevents>>

\* line 317: last_seen[free] = time.time()
PairCreateSeen ==
    /\ ppc = "c_seen"
    /\ last_seen' = [last_seen EXCEPT ![pslot] = clock]
    /\ ppc' = "c_reply"
    /\ UNCHANGED <<bridgeVars, loopVars, clientVars, statsVars, holdVars, nowVars, stamps, clock, controllers, pkt_count, hz_est, active_at, preq, pslot,
                   plive, ptoken, psent, reply, next_token, disclosed, listenerVars,
                   nevents>>

\* lines 318-322: PAIR_ACCEPT with controllers[free].token
PairCreateReply ==
    /\ ppc = "c_reply"
    /\ controllers[pslot] # None
    /\ reply' = PairAccept(pslot, controllers[pslot].token, preq.addr)
    /\ disclosed' = disclosed \cup {controllers[pslot].token}
    /\ psent' = psent + 1
    /\ ppc' = "done"
    /\ UNCHANGED <<bridgeVars, loopVars, clientVars, statsVars, holdVars, nowVars, stamps, clock, registry, active_at, preq, pslot, plive, ptoken, next_token,
                   listenerVars, nevents>>

\* line 318 when controllers[free] is None: `.token` raises AttributeError
\* outside every try block, which ends the pair_server thread
PairCreateCrash ==
    /\ ppc = "c_reply"
    /\ controllers[pslot] = None
    /\ ppc' = "dead"
    /\ UNCHANGED <<bridgeVars, loopVars, clientVars, statsVars, holdVars, nowVars, stamps, clock, registry, active_at, preq, pslot, plive, ptoken, psent,
                   reply, next_token, disclosed, listenerVars, nevents>>

\* lines 304-305 / 313-314 / 323, then 270-273: log, and back to recvfrom
PairDone ==
    /\ ppc = "done"
    /\ ppc' = "recv"
    /\ preq' = NoReq
    /\ pslot' = NoSlot
    /\ plive' = FALSE
    /\ ptoken' = 0
    /\ psent' = 0
    /\ reply' = NoMsg
    /\ UNCHANGED <<bridgeVars, loopVars, clientVars, statsVars, holdVars, nowVars, stamps, clock, registry, active_at, next_token, disclosed, listenerVars,
                   nevents>>

\* ---------------------------------------------------------- phone_listener
\* lines 337-349: a decodable telemetry datagram arrives
TelRecv(msg) ==
    /\ lpc = "recv"
    /\ lmsg' = msg
    /\ lpc' = "validate"
    /\ UNCHANGED <<bridgeVars, loopVars, clientVars, statsVars, holdVars, nowVars, stamps, clock, registry, active_at, pairVars, lslot, llive, lcnt>>

\* Validate without the comparison of the tokens
ValidateDeviceOnly(ctrl, msg) == FindByDevice(ctrl, msg.device_id)

\* lines 350-363: the slot bound to device_id if the token is its token
Validate(ctrl, msg) ==
    LET slot == FindByDevice(ctrl, msg.device_id)
    IN  IF msg.device_id = 0 \/ msg.token = 0 THEN NoSlot
        ELSE IF slot = NoSlot THEN NoSlot
        ELSE IF TokenOk(ctrl[slot], msg.token) THEN slot
        ELSE NoSlot

\* lines 350-363: drop the datagram, or go on to the writes with `slot` and `c`
TelValidate ==
    /\ lpc = "validate"
    /\ LET slot == Validate(controllers, lmsg)
       IN  IF slot = NoSlot
           THEN /\ lpc' = "drop"
                /\ UNCHANGED <<lmsg, lslot, llive>>
           ELSE /\ lpc' = "touch"
                /\ lslot' = slot
                /\ llive' = TRUE
                /\ lmsg' = [lmsg EXCEPT !.device_id = 0, !.token = 0]
    /\ UNCHANGED <<bridgeVars, loopVars, clientVars, statsVars, holdVars, nowVars, stamps, clock, registry, active_at, pairVars, lcnt, nevents>>

\* lines 351 / 359 / 363, then 334-337: `continue`, and back to recvfrom
TelDrop ==
    /\ lpc = "drop"
    /\ lpc' = "recv"
    /\ lmsg' = NoTel
    /\ UNCHANGED <<bridgeVars, loopVars, clientVars, statsVars, holdVars, nowVars, stamps, clock, registry, active_at, pairVars, lslot, llive, lcnt, nevents>>

\* TouchFields that forgets the sample
TouchFieldsAddrOnly(c, msg) == [c EXCEPT !.addr = msg.addr]

\* lines 366-369: c.addr, c.buttons, c.gyro, c.accel
TouchFields(c, msg) ==
    [c EXCEPT !.addr = msg.addr, !.buttons = msg.buttons, !.gyro = msg.gyro,
              !.accel = msg.accel]

\* lines 365-369: last_seen[slot] = time.time(), then the fields of c
TelTouch ==
    /\ lpc = "touch"
    /\ last_seen' = [last_seen EXCEPT ![lslot] = clock]
    /\ active_at' = IF llive THEN [active_at EXCEPT ![lslot] = clock] ELSE active_at
    /\ controllers' =
          IF llive
          THEN [controllers EXCEPT ![lslot] = TouchFields(controllers[lslot], lmsg)]
          ELSE controllers
    /\ lpc' = "count"
    /\ lmsg' = NoTel
    /\ llive' = FALSE
    /\ stamps' = IF llive THEN [stamps EXCEPT ![lslot] = <<stamps[lslot][2], lmsg.ts>>]
                 ELSE stamps
    /\ UNCHANGED <<bridgeVars, loopVars, clientVars, statsVars, holdVars, nowVars, clock, pkt_count, hz_est, pairVars, lslot, lcnt, nevents>>

\* line 371, the load of `pkt_count[slot] += 1`
TelCountLoad ==
    /\ lpc = "count"
    /\ lcnt' = pkt_count[lslot]
    /\ lpc' = "store"
    /\ UNCHANGED <<bridgeVars, loopVars, clientVars, statsVars, holdVars, nowVars, stamps, clock, registry, active_at, pairVars, lmsg, lslot, llive, nevents>>

\* line 371, the store of `pkt_count[slot] += 1`
TelCountStore ==
    /\ lpc = "store"
    /\ pkt_count' = [pkt_count EXCEPT ![lslot] = lcnt + 1]
    /\ lpc' = "recv"
    /\ lslot' = NoSlot
    /\ lcnt' = 0
    /\ UNCHANGED <<bridgeVars, loopVars, clientVars, statsVars, holdVars, nowVars, stamps, clock, controllers, last_seen, hz_est, active_at, pairVars, lmsg,
                   llive, nevents>>

\* ------------------------------------------------------------ cleanup_loop
\* lines 375-383: one pass; every slot that tests stale against `now` is
\* emptied and its last_seen, hz_est and pkt_count are zeroed
CleanupPass ==
    LET now == clock
        gone == {s \in Slots : IsStale(controllers, last_seen, now, s)}
    IN  /\ controllers' = [s \in Slots |-> IF s \in gone THEN None ELSE controllers[s]]
        /\ last_seen' = [s \in Slots |-> IF s \in gone THEN 0 ELSE last_seen[s]]
        /\ hz_est' = [s \in Slots |-> IF s \in gone THEN <<0, 1>> ELSE hz_est[s]]
        /\ pkt_count' = [s \in Slots |-> IF s \in gone THEN 0 ELSE pkt_count[s]]
        /\ active_at' = [s \in Slots |-> IF s \in gone THEN 0 ELSE active_at[s]]
        /\ StaleRefs(gone)
        /\ tpc' = Back("cleanup_loop")
        /\ UNCHANGED <<bridgeVars, stop_evt, last_hz_t, clientVars, statsVars, bpc, nowVars, stamps, clock, ppc, preq, pslot, ptoken, psent, reply, next_token,
                       disclosed, lpc, lmsg, lslot, lcnt, nevents>>

\* ------------------------------------------------- ModernUI.disconnect_slot
\* lines 692-696: the Disconnect button of a connected row is clicked
DisconnectSlot(slot) ==
    /\ controllers[slot] # None
    /\ controllers' = [controllers EXCEPT ![slot] = None]
    /\ last_seen' = [last_seen EXCEPT ![slot] = 0]
    /\ hz_est' = [hz_est EXCEPT ![slot] = <<0, 1>>]
    /\ active_at' = [active_at EXCEPT ![slot] = 0]
    /\ StaleRefs({slot})
    /\ UNCHANGED <<bridgeVars, loopVars, clientVars, statsVars, bpc, nowVars, stamps, clock, pkt_count, ppc, preq, pslot, ptoken, psent, reply,
                   next_token, disclosed, lpc, lmsg, lslot, lcnt>>

\* -------------------------------------------------------------- the server
PairServer ==
    \/ \E req \in PairRequests : Event(MaxEvents) /\ PairRecv(req)
    \/ PairRefreshSeen
    \/ PairCreate
    \/ PairCreateSeen
    \/ PairCreateReply
    \/ PairCreateCrash
    \/ PairDone

PhoneListener ==
    \/ \E msg \in Telemetry(disclosed \cup {Forged}) : Event(MaxEvents) /\ TelRecv(msg)
    \/ TelValidate
    \/ TelDrop
    \/ TelTouch
    \/ TelCountLoad
    \/ TelCountStore

UiThread == \E slot \in Slots : Event(MaxEvents) /\ DisconnectSlot(slot)

Next ==
    \/ Tick
    \/ PairServer
    \/ PhoneListener
    \/ CleanupPass
    \/ UiThread

Spec == Init /\ [][Next]_vars

\* cleanup_loop is a thread of its own that runs a pass every 0.5 s
LiveSpec == Spec /\ WF_vars(CleanupPass)

\* ------------------------------------------------- the capacity scenario
\* one more device than there are slots, each pairing from one endpoint
FullDevices == 1 .. (MAX_CONTROLLERS + 1)

FullRequests == {[device_id |-> d, username |-> 1, addr |-> 1] : d \in FullDevices}

FullEvents == MAX_CONTROLLERS + 1

NextFull ==
    \/ \E req \in FullRequests : Event(FullEvents) /\ PairRecv(req)
    \/ PairRefreshSeen
    \/ PairCreate
    \/ PairCreateSeen
    \/ PairCreateReply
    \/ PairCreateCrash
    \/ PairDone
    \/ CleanupPass

SpecFull == Init /\ [][NextFull]_vars

\* ------------------------------------------------- the datagram scenario
\* what the sockets can deliver besides well-formed messages: bytes that are
\* not JSON, JSON that is not an object ([], 1, "x", null), an object of
\* another type, and an object whose device_id (or token) is empty
WireKinds == {"undecodable", "not_object", "wrong_type"}

PairDatagrams ==
    {[kind |-> k, device_id |-> d, username |-> 1, addr |-> 1] :
        k \in WireKinds \cup {"request"}, d \in {0, 1}}

TelDatagrams(toks) ==
    {[kind |-> k, device_id |-> d, token |-> tok, addr |-> 1,
      buttons |-> b, gyro |-> ZeroVec, accel |-> ZeroVec, ts |-> t] :
        k \in {"undecodable", "not_object", "telemetry"}, d \in {0, 1, 2},
        tok \in toks \cup {0}, b \in {{"A"}, {"B"}}, t \in {1, 2}}

WireEvents == 3

\* PairDecode without the test of the message type
PairDecodeAnyType(dg) ==
    IF dg.kind = "undecodable" THEN "continue"
    ELSE IF dg.kind = "not_object" THEN "raise"
    ELSE IF dg.device_id = 0 THEN "continue"
    ELSE "handle"

\* lines 279-290: json.loads in a try block, then j.get("type"),
\* j.get("device_id") and the test of an empty device_id outside any try
\* block; j.get raises AttributeError when j is not a dict
PairDecode(dg) ==
    IF dg.kind = "undecodable" THEN "continue"
    ELSE IF dg.kind = "not_object" THEN "raise"
    ELSE IF dg.kind # "request" THEN "continue"
    ELSE IF dg.device_id = 0 THEN "continue"
    ELSE "handle"

\* lines 341-351: the same for phone_listener, which has no message type
TelDecode(dg) ==
    IF dg.kind = "undecodable" THEN "continue"
    ELSE IF dg.kind = "not_object" THEN "raise"
    ELSE IF dg.device_id = 0 \/ dg.token = 0 THEN "continue"
    ELSE "handle"

\* lines 273-314: any datagram arrives on the pairing socket; an exception
\* outside the try blocks ends the thread
PairRecvDatagram(dg) ==
    /\ ppc = "recv"
    /\ IF PairDecode(dg) = "handle"
       THEN PairRecv(dg)
       ELSE /\ preq' = dg
            /\ ppc' = IF PairDecode(dg) = "raise" THEN "dead" ELSE "recv"
            /\ UNCHANGED <<bridgeVars, loopVars, clientVars, statsVars, holdVars, nowVars, stamps, clock, registry, active_at, pslot, plive, ptoken, psent,
                           reply, next_token, disclosed, listenerVars>>

\* lines 337-351: any datagram arrives on the telemetry socket
TelRecvDatagram(dg) ==
    /\ lpc = "recv"
    /\ IF TelDecode(dg) = "handle"
       THEN TelRecv(dg)
       ELSE /\ lmsg' = dg
            /\ lpc' = IF TelDecode(dg) = "raise" THEN "dead" ELSE "recv"
            /\ UNCHANGED <<bridgeVars, loopVars, clientVars, statsVars, holdVars, nowVars, stamps, clock, registry, active_at, pairVars, lslot, llive, lcnt>>

\* pair_server and phone_listener alone: nothing is evicted, so line 318
\* always finds the session it created
NextWire ==
    \/ \E dg \in PairDatagrams : Event(WireEvents) /\ PairRecvDatagram(dg)
    \/ PairRefreshSeen
    \/ PairCreate
    \/ PairCreateSeen
    \/ PairCreateReply
    \/ PairDone
    \/ \E dg \in TelDatagrams(disclosed \cup {Forged}) :
          Event(WireEvents) /\ TelRecvDatagram(dg)
    \/ TelValidate
    \/ TelDrop
    \/ TelTouch
    \/ TelCountLoad
    \/ TelCountStore

SpecWire == Init /\ [][NextWire]_vars

\* ------------------------------------------------- the time-stamp scenario
\* `last_seen[slot] = time.time()` is a call followed by a store, and another
\* thread may run between the two.  Here lines 298 and 365 are two steps each.

\* line 298, the call of time.time()
PairRefreshNow ==
    /\ ppc = "r_seen"
    /\ pnow' = clock
    /\ ppc' = "r_store"
    /\ UNCHANGED <<bridgeVars, loopVars, clientVars, statsVars, holdVars, lnow, stamps, clock, registry, active_at, preq, pslot,
                   plive, ptoken, psent, reply, next_token, disclosed, listenerVars,
                   nevents>>

\* line 298, the store into last_seen, then lines 299-303
PairRefreshStore ==
    /\ ppc = "r_store"
    /\ last_seen' = [last_seen EXCEPT ![pslot] = pnow]
    /\ active_at' = IF plive THEN [active_at EXCEPT ![pslot] = pnow] ELSE active_at
    /\ reply' = PairAccept(pslot, ptoken, preq.addr)
    /\ disclosed' = disclosed \cup {ptoken}
    /\ psent' = psent + 1
    /\ ppc' = "done"
    /\ pnow' = 0
    /\ UNCHANGED <<bridgeVars, loopVars, clientVars, statsVars, holdVars, lnow, stamps, clock, controllers, pkt_count, hz_est,
                   preq, pslot, plive, ptoken, next_token, listenerVars, nevents>>

\* line 365, the call of time.time()
TelTouchNow ==
    /\ lpc = "touch"
    /\ lnow' = clock
    /\ lpc' = "t_store"
    /\ UNCHANGED <<bridgeVars, loopVars, clientVars, statsVars, holdVars, pnow, stamps, clock, registry, active_at, pairVars,
                   lmsg, lslot, llive, lcnt, nevents>>

\* line 365, the store into last_seen, then lines 366-369
TelTouchStore ==
    /\ lpc = "t_store"
    /\ last_seen' = [last_seen EXCEPT ![lslot] = lnow]
    /\ active_at' = IF llive THEN [active_at EXCEPT ![lslot] = lnow] ELSE active_at
    /\ controllers' =
          IF llive
          THEN [controllers EXCEPT ![lslot] = TouchFields(controllers[lslot], lmsg)]
          ELSE controllers
    /\ lpc' = "count"
    /\ lmsg' = NoTel
    /\ llive' = FALSE
    /\ lnow' = 0
    /\ stamps' = IF llive THEN [stamps EXCEPT ![lslot] = <<stamps[lslot][2], lmsg.ts>>]
                 ELSE stamps
    /\ UNCHANGED <<bridgeVars, loopVars, clientVars, statsVars, holdVars, pnow, clock, pkt_count, hz_est, pairVars, lslot, lcnt,
                   nevents>>

NextClock ==
    \/ Tick
    \/ \E req \in PairRequests : Event(MaxEvents) /\ PairRecv(req)
    \/ PairRefreshNow
    \/ PairRefreshStore
    \/ PairCreate
    \/ PairCreateSeen
    \/ PairCreateReply
    \/ PairCreateCrash
    \/ PairDone
    \/ \E msg \in Telemetry(disclosed \cup {Forged}) : Event(MaxEvents) /\ TelRecv(msg)
    \/ TelValidate
    \/ TelDrop
    \/ TelTouchNow
    \/ TelTouchStore
    \/ TelCountLoad
    \/ TelCountStore
    \/ CleanupPass

SpecClock == Init /\ [][NextClock]_vars

\* ------------------------------------------------------------- bridge_loop
\* Times and durations are milliseconds, angular
\* rates mrad/s, angles microradians (fixed point: a product that is not a
\* whole number of microradians is truncated), accelerations mm/s^2.

\* time.time() in milliseconds
NowMs == clock * 1000 + ms

Abs(x) == IF x < 0 THEN 0 - x ELSE x

\* int(): the quotient truncated towards zero (b > 0)
TruncDiv(a, b) == IF a >= 0 THEN a \div b ELSE 0 - ((0 - a) \div b)

\* clamp that lets every value through
clampNone(v, lo, hi) == v

\* line 208
clamp(v, lo, hi) == IF v < lo THEN lo ELSE IF v > hi THEN hi ELSE v

\* line 211, with pi = 355 / 113
maybe_deg_to_rad(v) ==
    IF Abs(v) > DegThreshold THEN TruncDiv(v * 355, 113 * 180) ELSE v

\* lines 214-218 for the samples of this model: atan2(-ax, denom) is 0 when
\* ax = 0 and -+pi/2 (to the microradian) when ay = az = 0 and ax # 0
accel_to_pitch(a) ==
    IF a.x = 0 THEN 0
    ELSE IF a.y = 0 /\ a.z = 0 THEN (IF a.x > 0 THEN 0 - HalfPi ELSE HalfPi)
    ELSE CHOOSE p \in {} : TRUE

\* line 419, 421: abs(acc_mag - 9.81) < ACC_G_TOL, on the squares
\* NearGravity that takes every vector as gravity
NearGravityAlways(a) == TRUE

\* line 421
NearGravity(a) ==
    LET sq == a.x * a.x + a.y * a.y + a.z * a.z
    IN  /\ sq > (Gravity - ACC_G_TOL) * (Gravity - ACC_G_TOL)
        /\ sq < (Gravity + ACC_G_TOL) * (Gravity + ACC_G_TOL)

\* lines 398-425: c.motion after update_motion(c) at time `now`
update_motion(c, now) ==
    LET m == c.motion
        dt == clamp(now - m.last_ts, DT_MIN, DT_MAX)
        gx == maybe_deg_to_rad(c.gyro.x)
        gz == maybe_deg_to_rad(c.gyro.z)
        pitch1 == m.pitch + gx * dt
        err == accel_to_pitch(c.accel) - pitch1
        pitch2 == IF NearGravity(c.accel) /\ Abs(err) > DRIFT_ERR_THRESH
                  THEN pitch1 + TruncDiv(DRIFT_STEP * err, 1000)
                  ELSE pitch1
    IN  IF m.last_ts = 0
        THEN [m EXCEPT !.last_ts = now]
        ELSE [m EXCEPT !.last_ts = now, !.pitch = pitch2, !.yaw = m.yaw + gz * dt]

\* lines 459-467: int(v / limit * 32767) for an angle v within -limit .. limit,
\* computed on thousands and units of v so that no product exceeds 2^31
StickValue(v, limit) ==
    LET a == Abs(v)
        q == ((a \div 1000) * StickMax + ((a % 1000) * StickMax) \div 1000)
                 \div (limit \div 1000)
    IN  IF v < 0 THEN 0 - q ELSE q

\* lines 427-467: c.motion after compute_axes(c) at time `now`, and what it
\* returns
compute_axes(c, now) ==
    LET m == c.motion
        dt == clamp(now - m.last_ts, AxesDtMin, AxesDtMax)
        gx0 == maybe_deg_to_rad(c.gyro.x)
        gy0 == maybe_deg_to_rad(c.gyro.y)
        gx == IF Abs(gx0) < DZ THEN 0 ELSE gx0
        gy == IF Abs(gy0) < DZ THEN 0 ELSE gy0
        yaw == clamp(m.yaw + gx * dt, 0 - YawLimit, YawLimit)
        pitch == clamp(m.pitch + gy * dt, 0 - PitchLimit, PitchLimit)
        rx == IF INVERT_RX THEN 0 - yaw ELSE yaw
        ry == IF INVERT_RY THEN pitch ELSE 0 - pitch
    IN  IF m.last_ts = 0
        THEN [motion |-> [m EXCEPT !.last_ts = now], RX |-> 0, RY |-> 0]
        ELSE [motion |-> [m EXCEPT !.last_ts = now, !.yaw = yaw, !.pitch = pitch],
              RX |-> StickValue(rx, YawLimit),
              RY |-> StickValue(ry, PitchLimit)]

\* ControlLine that reports every button as released
ControlLineReleased(btns, swing, rxy) ==
    [i \in 1 .. Len(WII_TO_BRIDGE) |-> <<WII_TO_BRIDGE[i][2], 0>>]
    \o (IF swing THEN << <<"A", 1>> >> ELSE <<>>)
    \o << <<"RX", rxy[1]>>, <<"RY", rxy[2]>> >>

\* lines 504-511: the parts of the control line, <<key, value>> each
ControlLine(btns, swing, rxy) ==
    [i \in 1 .. Len(WII_TO_BRIDGE) |->
        <<WII_TO_BRIDGE[i][2], IF WII_TO_BRIDGE[i][1] \in btns THEN 1 ELSE 0>>]
    \o (IF swing THEN << <<"A", 1>> >> ELSE <<>>)
    \o << <<"RX", rxy[1]>>, <<"RY", rxy[2]>> >>

\* iterations of bridge_loop in one run
MaxBridgeTicks == 3

\* datagrams and changes of the active slot in one run of the bridge scenario
BridgeEvents == 3

\* HoldElapsed without a threshold
HoldElapsedAtOnce(m, now) == now >= m.home_hold

\* line 488
HoldElapsed(m, now) == now - m.home_hold >= RECENTER_HOLD_SEC

\* lines 483-493: c.motion after the HOME logic at time `now`
recenter(c, now) ==
    LET m == c.motion
    IN  IF "HOME" \in c.buttons
        THEN IF m.home_hold = NoHold
             THEN [m EXCEPT !.home_hold = now]
             ELSE IF HoldElapsed(m, now)
                  THEN [m EXCEPT !.pitch0 = m.pitch, !.yaw0 = m.yaw,
                                 !.home_hold = now + HoldSentinel * 1000]
                  ELSE m
        ELSE [m EXCEPT !.home_hold = NoHold]

\* lines 488-491 are reached and capture
Captures(c, now) ==
    /\ "HOME" \in c.buttons
    /\ c.motion.home_hold # NoHold
    /\ HoldElapsed(c.motion, now)

\* line 500
Swings(c, now) ==
    /\ Abs(c.accel.x) > SWING_THRESHOLD
    /\ now - c.motion.last_swing > SWING_COOLDOWN

\* line 476: controllers.get(slot)
Get(ctrl, slot) == IF slot \in DOMAIN ctrl THEN ctrl[slot] ELSE None

\* lines 472-479: the active slot is read under ACTIVE_LOCK and is empty: the
\* iteration ends without a control line
BridgeEmpty ==
    /\ Get(controllers, active - 1) = None
    /\ bticks' = bticks + 1
    /\ bslot' = NoSlot
    /\ tpc' = Back("bridge_loop")
    /\ UNCHANGED <<active, line, nlines, captures, nwaits, ms, nswings, arrived, pace, axes,
                   called, stop_evt, last_hz_t, clientVars, statsVars, holdVars,
                   nowVars, stamps, clock, registry, active_at, pairVars,
                   listenerVars, nevents>>

\* lines 472-514: the active slot is read under ACTIVE_LOCK and holds a
\* session: one tick.  c1 is c after update_motion (481), c2 after the HOME
\* logic (483-493), r what compute_axes returns (495), c3 c after it
BridgeIteration ==
    /\ Get(controllers, active - 1) # None
    /\ bticks' = bticks + 1
    /\ bslot' = active - 1
    /\ \E c1 \in {[controllers[active - 1] EXCEPT
                       !.motion = update_motion(controllers[active - 1], NowMs)]} :
       \E c2 \in {[c1 EXCEPT !.motion = recenter(c1, NowMs)]} :
       \E r \in {compute_axes(c2, NowMs)} :
       \E c3 \in {[c2 EXCEPT !.motion = r.motion]} :
       \E swing \in {Swings(c3, NowMs)} :
          /\ controllers' =
                [controllers EXCEPT
                    ![active - 1] =
                        IF swing THEN [c3 EXCEPT !.motion.last_swing = NowMs] ELSE c3]
          /\ captures' =
                [captures EXCEPT
                    ![active - 1] =
                        IF "HOME" \notin c1.buttons THEN 0
                        ELSE IF Captures(c1, NowMs) THEN @ + 1 ELSE @]
          /\ line' = ControlLine(c3.buttons, swing, <<r.RX, r.RY>>)
          /\ nswings' =
                IF swing THEN [nswings EXCEPT ![active - 1] = @ + 1] ELSE nswings
          /\ axes' = <<r.RX, r.RY>>
    /\ called' = "bridge_loop"
    /\ nlines' = nlines + 1
    /\ tpc' = Back("bridge_loop")
    /\ UNCHANGED <<active, nwaits, ms, arrived, pace, stop_evt, last_hz_t, clientVars, statsVars, holdVars,
                   nowVars, stamps, clock,
                   last_seen, pkt_count, hz_est, active_at, pairVars, listenerVars,
                   nevents>>

\* at most MaxBridgeTicks iterations in a run
BridgeIdle ==
    /\ bticks < MaxBridgeTicks
    /\ BridgeEmpty

BridgeTick ==
    /\ bticks < MaxBridgeTicks
    /\ BridgeIteration

BridgeLoop ==
    \/ BridgeIdle
    \/ BridgeTick

\* lines 698-706: the combo box of the UI holds `val`
on_change_active(val) ==
    /\ active' = LoadActive(val)
    /\ UNCHANGED <<line, bticks, bslot, nlines, captures, nwaits, ms, nswings,
                   arrived, pace, axes,
                   called, loopVars, clientVars, statsVars, holdVars, nowVars, stamps,
                   clock, registry, active_at, pairVars, listenerVars>>

\* values of active_slot in the configuration file and in the combo box
SlotChoices == {0, 1, MAX_CONTROLLERS + 1}

\* lines 119-121: active_slot as the configuration file has it
InitBridge ==
    /\ InitThreads
    /\ \E val \in SlotChoices : active = LoadActive(val)

\* the one device of the bridge scenario asks to pair
BridgeRequests ==
    {[kind |-> "request", device_id |-> 1, username |-> 1, addr |-> 1]}

\* what its telemetry carries: a button held, HOME held while it turns, a swing
BridgeSamples ==
    { [buttons |-> {"A"}, gyro |-> ZeroVec, accel |-> Vec(0, 0, Gravity)],
      [buttons |-> {"HOME"}, gyro |-> Vec(1000, 500, 200), accel |-> Vec(0, 0, Gravity)],
      [buttons |-> {}, gyro |-> Vec(1000, 500, 200), accel |-> Vec(3000, 0, 0)] }

BridgeTelemetry(toks) ==
    {[kind |-> "telemetry", device_id |-> 1, token |-> tok, addr |-> 1,
      buttons |-> s.buttons, gyro |-> s.gyro, accel |-> s.accel, ts |-> 0] :
        tok \in toks, s \in BridgeSamples}

\* the delays between two steps of the threads, in seconds
Delays == {1, HoldSentinel + 1}

\* delays in one run
MaxWaits == 2

\* time passes
Wait(d) ==
    /\ nwaits < MaxWaits
    /\ nwaits' = nwaits + 1
    /\ clock' = clock + d
    /\ UNCHANGED <<active, line, bticks, bslot, nlines, captures, ms, nswings,
                   arrived, pace, axes,
                   called, loopVars, clientVars, statsVars, holdVars, nowVars, stamps, registry, active_at, pairVars,
                   listenerVars, nevents>>

\* lines 286-322 as one step: pair_server handles a PAIR_REQUEST with a
\* non-empty device_id and is back at recvfrom before another thread runs
PairHandle(req) ==
    /\ ppc = "recv"
    /\ LET slot == FindByDevice(controllers, req.device_id)
           free == FirstFree(controllers)
       IN  IF slot # NoSlot
           THEN /\ controllers' =
                      [controllers EXCEPT
                          ![slot] = RefreshFields(controllers[slot], req, next_token)]
                /\ next_token' =
                      IF controllers'[slot].token = next_token
                      THEN next_token + 1 ELSE next_token
                /\ last_seen' = [last_seen EXCEPT ![slot] = clock]
                /\ active_at' = [active_at EXCEPT ![slot] = clock]
                /\ disclosed' = disclosed \cup {controllers'[slot].token}
           ELSE IF free = NoSlot
           THEN UNCHANGED <<controllers, next_token, last_seen, active_at, disclosed>>
           ELSE /\ controllers' =
                      [controllers EXCEPT ![free] = NewController(req, next_token)]
                /\ next_token' = next_token + 1
                /\ last_seen' = [last_seen EXCEPT ![free] = clock]
                /\ active_at' = [active_at EXCEPT ![free] = clock]
                /\ disclosed' = disclosed \cup {next_token}
    /\ tpc' = Back("pair_server")
    /\ UNCHANGED <<bridgeVars, stop_evt, last_hz_t, clientVars, statsVars, holdVars, nowVars, stamps, clock, pkt_count, hz_est, ppc, preq,
                   pslot, plive, ptoken, psent, reply, listenerVars>>

\* lines 348-371 as one step: phone_listener handles a decodable telemetry
\* datagram and is back at recvfrom before another thread runs
TelHandle(msg) ==
    /\ lpc = "recv"
    /\ LET slot == Validate(controllers, msg)
       IN  IF slot = NoSlot
           THEN UNCHANGED <<registry, active_at, stamps, captures, arrived>>
           ELSE /\ last_seen' = [last_seen EXCEPT ![slot] = clock]
                /\ active_at' = [active_at EXCEPT ![slot] = clock]
                /\ controllers' =
                      [controllers EXCEPT ![slot] = TouchFields(controllers[slot], msg)]
                /\ stamps' = [stamps EXCEPT ![slot] = <<stamps[slot][2], msg.ts>>]
                /\ pkt_count' = [pkt_count EXCEPT ![slot] = pkt_count[slot] + 1]
                /\ hz_est' = hz_est
                /\ captures' =
                      IF "HOME" \in msg.buttons THEN captures
                      ELSE [captures EXCEPT ![slot] = 0]
                /\ arrived' = NowMs
    /\ tpc' = Back("phone_listener")
    /\ UNCHANGED <<active, line, bticks, bslot, nlines, nwaits, ms, nswings, pace, axes,
                   called, stop_evt, last_hz_t, clientVars, statsVars, holdVars,
                   nowVars, clock, pairVars, listenerVars>>

\* pair_server, phone_listener and bridge_loop with one device that stays
\* connected (no eviction, no Disconnect click); a datagram is handled before
\* the next thread runs
NextBridge ==
    \/ \E d \in Delays : Wait(d)
    \/ \E req \in BridgeRequests : Event(BridgeEvents) /\ PairHandle(req)
    \/ \E msg \in BridgeTelemetry(disclosed \cup {Forged}) :
          Event(BridgeEvents) /\ TelHandle(msg)
    \/ \E val \in SlotChoices : Event(BridgeEvents) /\ on_change_active(val)
    \/ BridgeLoop

SpecBridge == InitBridge /\ [][NextBridge]_vars

\* bridge_loop is a thread of its own: it is always scheduled again
LiveBridge == SpecBridge /\ WF_vars(BridgeLoop)

\* ------------------------------------ update_motion and compute_axes apart
\* delays of less than a second in one run
MaxMsWaits == 3

\* time passes, d milliseconds, at most `budget` times in a run
WaitMs(d, budget) ==
    /\ nwaits < budget
    /\ nwaits' = nwaits + 1
    /\ ms' = (ms + d) % 1000
    /\ clock' = clock + ((ms + d) \div 1000)
    /\ UNCHANGED <<active, line, bticks, bslot, nlines, captures, nswings, arrived,
                   pace, axes, called, loopVars, clientVars, statsVars, holdVars, nowVars, stamps,
                   registry, active_at, pairVars, listenerVars, nevents>>

\* what the phone may report while the two functions are looked at: at rest,
\* turning either way, turning below the deadzone of line 444
AxesGyros ==
    {ZeroVec, Vec(1000, 500, 200), Vec(0 - 1000, 0 - 500, 0 - 200), Vec(10, 10, 10)}

\* lying flat, or shaken along x
AxesAccels == {Vec(0, 0, Gravity), Vec(3000, 0, 0)}

\* a session in slot 0 whose motion state is as an earlier iteration of
\* bridge_loop left it (lines 455-456 keep yaw and pitch within their limits)
AxesSession(yaw, pitch, gyro, accel) ==
    [device_id |-> 1, username |-> 1, addr |-> 1, token |-> 1, buttons |-> {},
     gyro |-> gyro, accel |-> accel,
     motion |-> [NewMotion EXCEPT !.last_ts = ClockStart * 1000,
                                  !.yaw = yaw, !.pitch = pitch]]

\* device 1 has paired and sent one telemetry datagram; bridge_loop has run
InitAxes ==
    /\ InitLocals
    /\ pace = 0
    /\ active = LoadActive(1)
    /\ \E yaw \in {0 - YawLimit, 0, YawLimit},
          pitch \in {0 - PitchLimit, 0, PitchLimit},
          gyro \in AxesGyros, accel \in AxesAccels :
            controllers =
                [i \in Slots |->
                    IF i = 0 THEN AxesSession(yaw, pitch, gyro, accel) ELSE None]
    /\ last_seen = [i \in Slots |-> IF i = 0 THEN ClockStart ELSE 0]
    /\ active_at = [i \in Slots |-> IF i = 0 THEN ClockStart ELSE 0]
    /\ pkt_count = [i \in Slots |-> IF i = 0 THEN 1 ELSE 0]
    /\ next_token = 2
    /\ disclosed = {1}
    /\ arrived = ClockStart * 1000

\* line 481 on its own: update_motion(c) for the active session
MotionStep ==
    /\ bticks < MaxBridgeTicks
    /\ Get(controllers, active - 1) # None
    /\ bticks' = bticks + 1
    /\ controllers' =
          [controllers EXCEPT
              ![active - 1].motion = update_motion(controllers[active - 1], NowMs)]
    /\ called' = "update_motion"
    /\ UNCHANGED <<active, line, bslot, nlines, captures, nwaits, ms, nswings,
                   arrived, pace, axes, loopVars, clientVars, statsVars, holdVars, nowVars, stamps,
                   clock, last_seen, pkt_count, hz_est, active_at, pairVars,
                   listenerVars, nevents>>

\* line 495 on its own: RX, RY = compute_axes(c) for the active session
AxesStep ==
    /\ bticks < MaxBridgeTicks
    /\ Get(controllers, active - 1) # None
    /\ bticks' = bticks + 1
    /\ \E r \in {compute_axes(controllers[active - 1], NowMs)} :
          /\ controllers' = [controllers EXCEPT ![active - 1].motion = r.motion]
          /\ axes' = <<r.RX, r.RY>>
    /\ called' = "compute_axes"
    /\ UNCHANGED <<active, line, bslot, nlines, captures, nwaits, ms, nswings,
                   arrived, pace, loopVars, clientVars, statsVars, holdVars, nowVars, stamps, clock,
                   last_seen, pkt_count, hz_est, active_at, pairVars,
                   listenerVars, nevents>>

\* the delay between two calls
AxesDelays == {10, 100}

NextAxes ==
    \/ \E d \in AxesDelays : WaitMs(d, MaxMsWaits)
    \/ MotionStep
    \/ AxesStep

\* the two functions called in any order on a session's motion state
SpecAxes == InitAxes /\ [][NextAxes]_vars

\* ----------------------------------------- bridge_loop at its own pace
\* what the phone reports while it points: the fastest turn that line 212
\* takes as rad/s, either way, a turn below the deadzone of line 444, at rest
PointerSamples ==
    { [buttons |-> {}, gyro |-> Vec(20000, 20000, 20000), accel |-> Vec(0, 0, Gravity)],
      [buttons |-> {}, gyro |-> Vec(0 - 20000, 0 - 20000, 0 - 20000),
       accel |-> Vec(0, 0, Gravity)],
      [buttons |-> {}, gyro |-> Vec(10, 10, 10), accel |-> Vec(0, 0, Gravity)],
      [buttons |-> {}, gyro |-> ZeroVec, accel |-> Vec(0, 0, Gravity)] }

PointerTelemetry(toks) ==
    {[kind |-> "telemetry", device_id |-> 1, token |-> tok, addr |-> 1,
      buttons |-> s.buttons, gyro |-> s.gyro, accel |-> s.accel, ts |-> 0] :
        tok \in toks, s \in PointerSamples}

\* how long an iteration of bridge_loop and its wait of line 514 may take (ms)
TickDelays == {10, 100}

\* one device pairs and sends telemetry while bridge_loop runs, with delays of
\* less than a second between the steps
NextPointer ==
    \/ \E d \in TickDelays : WaitMs(d, MaxMsWaits)
    \/ \E req \in BridgeRequests : Event(BridgeEvents) /\ PairHandle(req)
    \/ \E msg \in PointerTelemetry(disclosed) :
          Event(BridgeEvents) /\ TelHandle(msg)
    \/ BridgeLoop

SpecPointer == Init /\ [][NextPointer]_vars

\* ------------------------------------------------------------ a swing
\* datagrams in one run of the swing scenario
SwingEvents == 4

\* telemetry of a swing: 3.0 m/s^2 along x
SwingTelemetry(toks) ==
    {[kind |-> "telemetry", device_id |-> 1, token |-> tok, addr |-> 1,
      buttons |-> {}, gyro |-> ZeroVec, accel |-> Vec(3000, 0, 0), ts |-> 0] :
        tok \in toks}

\* phone_listener handles the first sample, or the next one 0.1 s (100 ms)
\* after the one before
SwingArrives ==
    /\ arrived = 0 \/ NowMs = arrived + 100
    /\ \E msg \in SwingTelemetry(disclosed) : Event(SwingEvents) /\ TelHandle(msg)

\* the delays between two steps of the threads (ms)
SwingDelays == {50, 100}

\* one device pairs and sends swing samples 0.1 s apart while bridge_loop runs
NextSwing ==
    \/ \E d \in SwingDelays : WaitMs(d, MaxMsWaits)
    \/ \E req \in BridgeRequests : Event(SwingEvents) /\ PairHandle(req)
    \/ SwingArrives
    \/ BridgeLoop

SpecSwing == Init /\ [][NextSwing]_vars

\* ------------------------------------------------- a turn held for a second
\* how long the gyro sample is held (ms)
HeldMs == 1000

\* how far apart the ticks of bridge_loop are in a run (ms): the 1/120 s of
\* line 514, the longest interval update_motion takes as it is, a longer one
Paces == {8, 25, 50}

\* the accelerometer vector that is held: flat, upright, free fall, 2 g
PitchAccels ==
    {Vec(0, 0, Gravity), Vec(0 - Gravity, 0, 0), ZeroVec, Vec(0, 0, 2 * Gravity)}

\* device 1 has paired and reports gyro x = 0.1 rad/s and one of PitchAccels;
\* bridge_loop has not met the session yet
InitPitch ==
    /\ InitLocals
    /\ active = LoadActive(1)
    /\ pace \in Paces
    /\ \E accel \in PitchAccels :
          controllers =
              [i \in Slots |->
                  IF i = 0
                  THEN [device_id |-> 1, username |-> 1, addr |-> 1, token |-> 1,
                        buttons |-> {}, gyro |-> Vec(100, 0, 0), accel |-> accel,
                        motion |-> NewMotion]
                  ELSE None]
    /\ last_seen = [i \in Slots |-> IF i = 0 THEN ClockStart ELSE 0]
    /\ active_at = [i \in Slots |-> IF i = 0 THEN ClockStart ELSE 0]
    /\ pkt_count = [i \in Slots |-> IF i = 0 THEN 1 ELSE 0]
    /\ next_token = 2
    /\ disclosed = {1}
    /\ arrived = ClockStart * 1000

\* lines 472-513: an iteration, `pace` after the one before
PacedTick ==
    /\ nwaits = bticks
    /\ bticks * pace <= HeldMs
    /\ BridgeIteration

\* line 514 and the time the iteration took
PacedWait ==
    /\ bticks * pace <= HeldMs
    /\ WaitMs(pace, bticks)

NextPitch ==
    \/ PacedTick
    \/ PacedWait

\* bridge_loop alone, ticking at a fixed pace on a sample that is held
SpecPitch == InitPitch /\ [][NextPitch]_vars

\* ------------------------------------------------------------ the client
\* datagrams the client receives in one run
ClientEvents == 4

\* line 263: the window of _pair_wait_response, 5.0 s (ms)
PairWindow == 5000

\* what _pair_wait_response may receive on its socket
ClientReplies ==
    { [type |-> "PAIR_PENDING", token |-> 0],
      [type |-> "PAIR_DENY", token |-> 0],
      [type |-> "PAIR_ACCEPT", token |-> 1],
      [type |-> "PAIR_ACCEPT", token |-> 0],
      [type |-> "DISCOVERY", token |-> 0] }

\* lines 214-237, 242-260, 263-284 (use_manual is off): _discovery_listener
\* receives a DISCOVERY datagram; _request_pair sends a PAIR_REQUEST and
\* starts _pair_wait_response, which sends one more and sets its deadline
ClientDiscovery ==
    /\ IF ~paired /\ pairing_state # "PENDING"
       THEN /\ pairing_state' = "PENDING"
            /\ nrequests' = nrequests + 2
            /\ cwait' = "waiting"
            /\ deadline' = NowMs + PairWindow
       ELSE UNCHANGED <<pairing_state, nrequests, cwait, deadline>>
    /\ UNCHANGED <<paired, ctoken>>

\* lines 286-319: _pair_wait_response receives a datagram before its deadline
ClientReply(j) ==
    /\ cwait \in {"waiting", "heard"}
    /\ NowMs < deadline
    /\ IF j.type = "PAIR_PENDING"
       THEN /\ pairing_state' = "PENDING"
            /\ cwait' = "heard"
            /\ UNCHANGED <<paired, ctoken>>
       ELSE IF j.type = "PAIR_DENY"
       THEN /\ pairing_state' = "DENIED"
            /\ paired' = FALSE
            /\ ctoken' = 0
            /\ cwait' = "done"
       ELSE IF j.type = "PAIR_ACCEPT"
       THEN /\ ctoken' = j.token
            /\ paired' = (j.token # 0)
            /\ pairing_state' = IF j.token # 0 THEN "PAIRED" ELSE "NOT_PAIRED"
            /\ cwait' = "done"
       ELSE /\ cwait' = "heard"
            /\ UNCHANGED <<pairing_state, paired, ctoken>>
    /\ UNCHANGED <<deadline, nrequests>>

\* lines 286, 321-324: the deadline has passed, _pair_wait_response leaves its
\* loop and closes its socket; "timeout" if it has received nothing at all
ClientExpire ==
    /\ cwait \in {"waiting", "heard"}
    /\ NowMs >= deadline
    /\ cwait' = IF cwait = "waiting" THEN "timeout" ELSE "done"
    /\ UNCHANGED <<pairing_state, paired, ctoken, deadline, nrequests>>

\* the rest of the state, which the client does not touch
ClientFrame ==
    UNCHANGED <<bridgeVars, loopVars, statsVars, holdVars, nowVars, stamps, clock, registry,
                active_at, pairVars, listenerVars>>

\* the delays between two steps of the client (ms)
ClientDelays == {1000, PairWindow}

NextClient ==
    \/ \E d \in ClientDelays : WaitMs(d, MaxMsWaits)
    \/ Event(ClientEvents) /\ ClientDiscovery /\ ClientFrame
    \/ \E j \in ClientReplies : Event(ClientEvents) /\ ClientReply(j) /\ ClientFrame
    \/ ClientExpire /\ ClientFrame /\ UNCHANGED nevents

\* the client in discovery mode, with whatever the network delivers to it
SpecClient == Init /\ [][NextClient]_vars

\* ------------------------------------------------------------- shutdown
\* iterations the six loops start in one run, all together
StopEvents == 3

\* a loop test that never sees the event
StopSeenNever == FALSE

\* lines 257, 270, 334, 374, 387, 471: stop_evt.is_set() as the loop test
\* reads it
StopSeen == stop_evt

\* the variables a step of a loop's control leaves alone
LoopFrame ==
    UNCHANGED <<bridgeVars, stop_evt, last_hz_t, clientVars, statsVars, holdVars, nowVars, stamps, clock,
                registry, active_at, pairVars, listenerVars>>

\* `while not stop_evt.is_set():` finds the event clear: one more iteration
Enter(t) ==
    /\ tpc[t] = "top"
    /\ ~StopSeen
    /\ tpc' = [tpc EXCEPT ![t] = "body"]
    /\ LoopFrame

\* `while not stop_evt.is_set():` finds the event set: the thread function
\* returns
Leave(t) ==
    /\ tpc[t] = "top"
    /\ StopSeen
    /\ tpc' = [tpc EXCEPT ![t] = "exited"]
    /\ LoopFrame
    /\ UNCHANGED nevents

\* an iteration that changes nothing: discovery_loop has sent its announcement
\* and waited (258-263); recvfrom of pair_server or phone_listener has timed
\* out after 0.25 s or the datagram was not for them (271-285, 335-352)
LoopIdle(t) ==
    /\ t \in {"discovery_loop", "pair_server", "phone_listener"}
    /\ tpc' = [tpc EXCEPT ![t] = "top"]
    /\ LoopFrame
    /\ UNCHANGED nevents

\* lines 388-396: an iteration of stats_loop, its wait of line 388 over
StatsPass ==
    /\ last_hz_t' = clock
    /\ IF clock - last_hz_t <= 0
       THEN UNCHANGED <<hz_est, pkt_count>>
       ELSE /\ hz_est' = [s \in Slots |-> <<pkt_count[s], clock - last_hz_t>>]
            /\ pkt_count' = [s \in Slots |-> 0]
    /\ tpc' = Back("stats_loop")
    /\ UNCHANGED <<bridgeVars, stop_evt, clientVars, statsVars, holdVars, nowVars, stamps, clock,
                   controllers, last_seen, active_at, pairVars, listenerVars,
                   nevents>>

\* the body of thread t's loop, from its test to its test
Body(t) ==
    /\ tpc[t] = "body"
    /\ \/ LoopIdle(t)
       \/ /\ t = "pair_server"
          /\ \E req \in BridgeRequests : PairHandle(req)
          /\ UNCHANGED nevents
       \/ /\ t = "phone_listener"
          /\ \E msg \in BridgeTelemetry(disclosed \cup {Forged}) : TelHandle(msg)
          /\ UNCHANGED nevents
       \/ t = "cleanup_loop" /\ CleanupPass
       \/ t = "stats_loop" /\ StatsPass
       \/ t = "bridge_loop" /\ BridgeEmpty
       \/ t = "bridge_loop" /\ BridgeIteration

\* a step of thread t
ThreadStep(t) ==
    \/ Event(StopEvents) /\ Enter(t)
    \/ Leave(t)
    \/ Body(t)

\* lines 756, 830: the window is closed
StopSet ==
    /\ ~stop_evt
    /\ stop_evt' = TRUE
    /\ UNCHANGED <<bridgeVars, tpc, last_hz_t, clientVars, statsVars, holdVars, nowVars, stamps, clock,
                   registry, active_at, pairVars, listenerVars, nevents>>

NextStop ==
    \/ StopSet
    \/ \E t \in Threads : ThreadStep(t)
    \/ WaitMs(1000, MaxMsWaits)

\* the six threads of start_threads, their loops and the shutdown
SpecStop == Init /\ [][NextStop]_vars

\* every thread is scheduled again and none of its calls blocks for good: the
\* waits are stop_evt.wait(timeout), the sockets have a timeout of 0.25 s
LiveStop == SpecStop /\ \A t \in Threads : WF_vars(ThreadStep(t))

\* ------------------------------------------------------------ stats_loop
\* datagrams in one run of the statistics scenario
StatsEvents == 3

\* lines 388-393: the wait is over; now, dt and _last_hz_t, then `continue` or
\* on to the for loop
StatsBegin ==
    /\ spc = "wait"
    /\ last_hz_t' = clock
    /\ IF clock - last_hz_t <= 0
       THEN UNCHANGED <<spc, sslot, sdt>>
       ELSE /\ spc' = "read"
            /\ sslot' = 0
            /\ sdt' = clock - last_hz_t
    /\ UNCHANGED <<bridgeVars, stop_evt, tpc, clientVars, holdVars, nowVars, stamps, clock,
                   registry, active_at, pairVars, listenerVars, nevents>>

\* line 395: hz_est[s] = pkt_count[s] / dt
StatsRead ==
    /\ spc = "read"
    /\ hz_est' = [hz_est EXCEPT ![sslot] = <<pkt_count[sslot], sdt>>]
    /\ spc' = "reset"
    /\ UNCHANGED <<bridgeVars, loopVars, clientVars, holdVars, nowVars, stamps, clock,
                   controllers, last_seen, pkt_count, active_at, pairVars,
                   listenerVars, nevents, sslot, sdt>>

\* line 396: pkt_count[s] = 0, then the next s or back to the wait
StatsReset ==
    /\ spc = "reset"
    /\ pkt_count' = [pkt_count EXCEPT ![sslot] = 0]
    /\ IF sslot = MAX_CONTROLLERS - 1
       THEN spc' = "wait" /\ sslot' = 0
       ELSE spc' = "read" /\ sslot' = sslot + 1
    /\ UNCHANGED <<bridgeVars, loopVars, clientVars, holdVars, nowVars, stamps, clock,
                   controllers, last_seen, hz_est, active_at, pairVars,
                   listenerVars, nevents, sdt>>

StatsLoop ==
    \/ StatsBegin
    \/ StatsRead
    \/ StatsReset

\* phone_listener, statement by statement, and stats_loop while one device
\* stays paired
NextStats ==
    \/ Tick
    \/ \E req \in BridgeRequests : Event(StatsEvents) /\ PairHandle(req)
    \/ \E msg \in BridgeTelemetry(disclosed \cup {Forged}) :
          Event(StatsEvents) /\ TelRecv(msg)
    \/ TelValidate
    \/ TelDrop
    \/ TelTouch
    \/ TelCountLoad
    \/ TelCountStore
    \/ StatsLoop

SpecStats == Init /\ [][NextStats]_vars

\* ------------------------------------- bridge_loop while sessions are removed
\* datagrams and Disconnect clicks in one run of the eviction scenario
EvictEvents == 3

\* lines 472-479: the active slot is read under ACTIVE_LOCK and holds a
\* session; bridge_loop has it in `c`
BridgeFetch ==
    /\ bpc = "top"
    /\ bticks < MaxBridgeTicks
    /\ Get(controllers, active - 1) # None
    /\ bticks' = bticks + 1
    /\ bslot' = active - 1
    /\ bpc' = "hold"
    /\ blive' = TRUE
    /\ UNCHANGED <<active, line, nlines, captures, nwaits, ms, nswings, arrived, pace,
                   axes, called, loopVars, clientVars, statsVars, bc, nowVars,
                   stamps, clock, registry, active_at, pairVars, listenerVars,
                   nevents>>

\* lines 481-514 on the object `c` refers to, in the registry or not: c1 is c
\* after update_motion (481), c2 after the HOME logic (483-493), r what
\* compute_axes returns (495), c3 c after it; then the line is sent
BridgeSend ==
    /\ bpc = "hold"
    /\ bpc' = "top"
    /\ \E c0 \in {IF blive THEN controllers[bslot] ELSE bc} :
       \E c1 \in {[c0 EXCEPT !.motion = update_motion(c0, NowMs)]} :
       \E c2 \in {[c1 EXCEPT !.motion = recenter(c1, NowMs)]} :
       \E r \in {compute_axes(c2, NowMs)} :
       \E c3 \in {[c2 EXCEPT !.motion = r.motion]} :
       \E swing \in {Swings(c3, NowMs)} :
          /\ controllers' =
                IF blive
                THEN [controllers EXCEPT
                         ![bslot] =
                             IF swing THEN [c3 EXCEPT !.motion.last_swing = NowMs]
                             ELSE c3]
                ELSE controllers
          /\ captures' =
                [captures EXCEPT
                    ![bslot] =
                        IF "HOME" \notin c1.buttons THEN 0
                        ELSE IF Captures(c1, NowMs) THEN @ + 1 ELSE @]
          /\ line' = ControlLine(c3.buttons, swing, <<r.RX, r.RY>>)
          /\ nswings' = IF swing THEN [nswings EXCEPT ![bslot] = @ + 1] ELSE nswings
          /\ axes' = <<r.RX, r.RY>>
    /\ called' = "bridge_loop"
    /\ nlines' = nlines + 1
    /\ blive' = FALSE
    /\ bc' = None
    /\ UNCHANGED <<active, bticks, bslot, nwaits, ms, arrived, pace, loopVars,
                   clientVars, statsVars, nowVars, stamps, clock, last_seen,
                   pkt_count, hz_est, active_at, pairVars, listenerVars, nevents>>

\* pair_server, phone_listener, cleanup_loop, the Disconnect button and
\* bridge_loop, which may be interrupted between fetching `c` and using it
NextEvict ==
    \/ Tick
    \/ \E req \in BridgeRequests : Event(EvictEvents) /\ PairHandle(req)
    \/ \E msg \in BridgeTelemetry(disclosed) : Event(EvictEvents) /\ TelHandle(msg)
    \/ CleanupPass
    \/ \E slot \in Slots : Event(EvictEvents) /\ DisconnectSlot(slot)
    \/ bpc = "top" /\ BridgeIdle
    \/ BridgeFetch
    \/ BridgeSend

SpecEvict == Init /\ [][NextEvict]_vars

\* ---------------------------------------------------------------- properties
\* C1: in every reachable state no two occupied slots hold sessions with the
\* same device_id, whatever pairing requests, telemetry, timeouts and UI
\* disconnects came before.
OneSessionPerDevice ==
    \A s, t \in Slots :
        (s # t /\ controllers[s] # None /\ controllers[t] # None)
            => controllers[s].device_id # controllers[t].device_id

\* a device that already has a session pairs again while a second slot is held
OneSessionPerDeviceWitness ==
    /\ ppc = "r_seen"
    /\ controllers[0] # None
    /\ controllers[1] # None

\* C2: a telemetry datagram whose device_id no slot holds, or whose token is not
\* the token of the slot that holds its device_id, is dropped by phone_listener
\* with controllers, last_seen and pkt_count (hence every session's addr,
\* buttons, gyro and accel) as they were.
UnauthorizedTelemetryIgnored ==
    [][LET unauthorized ==
               \A s \in Slots :
                   \/ controllers[s] = None
                   \/ controllers[s].device_id # lmsg.device_id
                   \/ controllers[s].token # lmsg.token
       IN  /\ (lpc = "validate" /\ lpc' # "validate" /\ unauthorized)
                => /\ lpc' = "drop"
                   /\ controllers' = controllers
                   /\ last_seen' = last_seen
                   /\ pkt_count' = pkt_count
           /\ (lpc = "drop" /\ lpc' # "drop")
                => /\ lpc' = "recv"
                   /\ controllers' = controllers
                   /\ last_seen' = last_seen
                   /\ pkt_count' = pkt_count]_vars

\* a datagram for a paired device with a token that is not its token was dropped
UnauthorizedTelemetryIgnoredWitness ==
    /\ lpc = "drop"
    /\ \E s \in Slots :
          /\ controllers[s] # None
          /\ controllers[s].device_id = lmsg.device_id
          /\ controllers[s].token # lmsg.token

\* C3: while a slot keeps its session the session's token keeps its value, and
\* a PAIR_ACCEPT sent for a slot that holds a session carries that slot's token
\* (so every re-pairing is answered with the token of the first PAIR_ACCEPT).
SessionTokenStable ==
    [][/\ \A s \in Slots :
              (controllers[s] # None /\ controllers'[s] # None)
                  => controllers'[s].token = controllers[s].token
       /\ (ppc' = "done" /\ reply'.type = "PAIR_ACCEPT"
               /\ controllers'[reply'.slot] # None)
              => reply'.token = controllers'[reply'.slot].token]_vars

\* a re-pairing was accepted for a session created before the newest one
SessionTokenStableWitness ==
    /\ ppc = "done"
    /\ plive
    /\ reply.type = "PAIR_ACCEPT"
    /\ controllers[pslot].token + 1 < next_token

\* C4 as stated: a pairing request for a device_id a slot already holds changes
\* nothing in the registry but that session's addr and username; last_seen,
\* pkt_count, hz_est, the token, the last sample and every other slot stay.
RepairChangesOnlyAddrAndName ==
    [][((ppc = "recv" /\ ppc' = "r_seen") \/ (ppc = "r_seen" /\ ppc' = "done"))
          => /\ last_seen' = last_seen
             /\ pkt_count' = pkt_count
             /\ hz_est' = hz_est
             /\ \A s \in Slots :
                   \/ controllers'[s] = controllers[s]
                   \/ /\ s = pslot'
                      /\ controllers'[s] =
                            [controllers[s] EXCEPT !.addr = preq'.addr,
                                                   !.username = preq'.username]]_vars

\* C4 amended: a pairing request for a device_id a slot already holds changes
\* nothing in the registry but that session's addr and username and that
\* slot's last_seen, which becomes the current time; pkt_count, hz_est, the
\* token, the last sample and every other slot stay.
RepairChangesAddrNameAndLastSeen ==
    [][/\ (ppc = "recv" /\ ppc' = "r_seen")
              => /\ last_seen' = last_seen
                 /\ pkt_count' = pkt_count
                 /\ hz_est' = hz_est
                 /\ \A s \in Slots :
                       \/ controllers'[s] = controllers[s]
                       \/ /\ s = pslot'
                          /\ controllers'[s] =
                                [controllers[s] EXCEPT !.addr = preq'.addr,
                                                       !.username = preq'.username]
       /\ (ppc = "r_seen" /\ ppc' = "done")
              => /\ last_seen' = [last_seen EXCEPT ![pslot] = clock]
                 /\ pkt_count' = pkt_count
                 /\ hz_est' = hz_est
                 /\ controllers' = controllers]_vars

\* a session that holds a telemetry sample was re-paired later than it was
\* created
RepairChangesAddrNameAndLastSeenWitness ==
    /\ ppc = "done"
    /\ plive
    /\ reply.type = "PAIR_ACCEPT"
    /\ controllers[pslot].buttons # {}
    /\ clock > ClockStart
    /\ last_seen[pslot] = clock

\* C5: a pairing request for a device_id no slot holds, with some slot empty,
\* creates the session in the empty slot of smallest index (of the slot table
\* as line 307 reads it) and the PAIR_ACCEPT names that index.
NewSessionInLowestFreeSlot ==
    [][/\ (/\ ppc = "recv"
           /\ ppc' # "recv"
           /\ \A s \in Slots :
                 controllers[s] = None \/ controllers[s].device_id # preq'.device_id
           /\ \E s \in Slots : controllers[s] = None)
              => /\ ppc' = "create"
                 /\ controllers[pslot'] = None
                 /\ \A i \in Slots : i < pslot' => controllers[i] # None
       /\ (ppc = "create" /\ ppc' # "create")
              => /\ controllers'[pslot].device_id = preq.device_id
                 /\ controllers'[pslot].addr = preq.addr
                 /\ \A s \in Slots : s # pslot => controllers'[s] = controllers[s]
       /\ (ppc = "c_reply" /\ ppc' = "done")
              => /\ reply'.type = "PAIR_ACCEPT"
                 /\ reply'.slot = pslot
                 /\ reply'.to = preq.addr]_vars

\* slot 0 was emptied while slot 1 stayed, and the next new session went to 0
NewSessionInLowestFreeSlotWitness ==
    /\ ppc = "done"
    /\ reply.type = "PAIR_ACCEPT"
    /\ reply.slot = 0
    /\ controllers[0] # None
    /\ controllers[1] # None
    /\ controllers[0].token > controllers[1].token

\* C6: with all four slots held by distinct device_ids, a pairing request for a
\* fifth device_id is answered PAIR_DENY with reason NO_FREE_SLOTS and leaves
\* controllers, last_seen and pkt_count as they were.
FullTableDenies ==
    [][(/\ ppc = "recv"
        /\ ppc' # "recv"
        /\ \A s \in Slots :
              controllers[s] # None /\ controllers[s].device_id # preq'.device_id
        /\ \A s, t \in Slots :
              s # t => controllers[s].device_id # controllers[t].device_id)
          => /\ ppc' = "done"
             /\ psent' = 1
             /\ reply'.type = "PAIR_DENY"
             /\ reply'.reason = "NO_FREE_SLOTS"
             /\ reply'.to = preq'.addr
             /\ controllers' = controllers
             /\ last_seen' = last_seen
             /\ pkt_count' = pkt_count]_vars

\* the fifth device was denied while the four slots are held
FullTableDeniesWitness ==
    /\ ppc = "done"
    /\ reply.type = "PAIR_DENY"
    /\ \A s \in Slots : controllers[s] # None

\* C7: a cleanup_loop pass never empties a slot whose session was created,
\* refreshed by pairing or touched by telemetry within the last TIMEOUT_SEC
\* seconds, also when it runs while pair_server is creating the session.
CleanupSparesActiveSessions ==
    [][CleanupPass
          => \A s \in Slots :
                (controllers[s] # None /\ controllers'[s] = None)
                    => clock - active_at[s] > TIMEOUT_SEC]_vars

\* C8: a cleanup_loop pass empties every occupied slot whose last_seen is more
\* than TIMEOUT_SEC seconds old, and, cleanup_loop running on, a slot in that
\* condition is emptied (unless its device is heard from again).
StaleSlotsEvicted ==
    /\ [][CleanupPass
             => \A s \in Slots :
                   (controllers[s] # None /\ clock - last_seen[s] > TIMEOUT_SEC)
                       => controllers'[s] = None]_vars
    /\ \A s \in Slots :
          (controllers[s] # None /\ clock - last_seen[s] > TIMEOUT_SEC)
              ~> (controllers[s] = None \/ clock - last_seen[s] <= TIMEOUT_SEC)

\* the one device of the run was paired and answered, and its slot is empty
\* again without any Disconnect click
StaleSlotsEvictedWitness ==
    /\ ppc = "recv"
    /\ nevents = 1
    /\ next_token = 2
    /\ clock - ClockStart > TIMEOUT_SEC
    /\ \A s \in Slots : controllers[s] = None

\* C9: when pair_server is through with a PAIR_REQUEST it has sent exactly one
\* reply, a PAIR_ACCEPT or a PAIR_DENY, to the address the request came from.
EveryPairRequestAnswered ==
    (ppc \in {"done", "dead"})
        => /\ psent = 1
           /\ reply.type \in {"PAIR_ACCEPT", "PAIR_DENY"}
           /\ reply.to = preq.addr

\* C11: no datagram, whatever it holds, ends pair_server or phone_listener.
NoDatagramEndsAThread ==
    ppc # "dead" /\ lpc # "dead"

\* C12: a pairing datagram that is undecodable, of another type than
\* PAIR_REQUEST or without a device_id gets no reply and leaves controllers,
\* last_seen and pkt_count as they were.
BadPairingIgnored ==
    [][(/\ ppc = "recv"
        /\ nevents' # nevents
        /\ lmsg' = lmsg
        /\ \/ preq'.kind # "request"
           \/ preq'.device_id = 0)
          => /\ ppc' \in {"recv", "dead"}
             /\ reply' = NoMsg
             /\ psent' = 0
             /\ controllers' = controllers
             /\ last_seen' = last_seen
             /\ pkt_count' = pkt_count]_vars

\* a datagram of another type that names a device was taken in while another
\* device is paired
BadPairingIgnoredWitness ==
    /\ ppc = "recv"
    /\ preq.kind = "wrong_type"
    /\ preq.device_id # 0
    /\ \E s \in Slots : controllers[s] # None

\* C13: phone_listener handles a malformed datagram, one for an unknown
\* device_id and one with a wrong token alike: in each case it sends nothing
\* and the registry is afterwards what it was before.
RejectedTelemetryAlike ==
    [][LET malformed == lpc = "recv" /\ lpc' # "validate" /\ lmsg' # lmsg
           unauthorized ==
               /\ lpc = "validate"
               /\ lpc' # "validate"
               /\ \A s \in Slots :
                     \/ controllers[s] = None
                     \/ controllers[s].device_id # lmsg.device_id
                     \/ controllers[s].token # lmsg.token
           dropped == lpc = "drop" /\ lpc' # "drop"
       IN  /\ malformed => (lpc' \in {"recv", "dead"} /\ registry' = registry
                                /\ reply' = reply /\ psent' = psent)
           /\ unauthorized => (lpc' = "drop" /\ registry' = registry
                                   /\ reply' = reply /\ psent' = psent)
           /\ dropped => (lpc' = "recv" /\ registry' = registry
                              /\ reply' = reply /\ psent' = psent)]_vars

\* bytes that are not JSON were taken in while a device is paired
RejectedTelemetryAlikeWitness ==
    /\ lpc = "recv"
    /\ lmsg.kind = "undecodable"
    /\ \E s \in Slots : controllers[s] # None /\ controllers[s].token \in disclosed

\* C10: whenever a session is destroyed, by a cleanup_loop pass or by
\* disconnect_slot, its slot is empty afterwards with hz_est = 0 and
\* pkt_count = 0.
DestroyClearsStatistics ==
    [][\A s \in Slots :
          (controllers[s] # None /\ controllers'[s] = None)
              => /\ hz_est'[s][1] = 0
                 /\ pkt_count'[s] = 0]_vars

\* C14: once a session is destroyed, telemetry that carries its token is
\* dropped without a touch, also after its device has paired again (the new
\* session has a new token).
OldTokenRejected ==
    [][(/\ lpc = "validate"
        /\ lpc' # "validate"
        /\ lmsg.token \in disclosed
        /\ \A s \in Slots : controllers[s].token # lmsg.token)
          => /\ lpc' = "drop"
             /\ controllers' = controllers
             /\ last_seen' = last_seen
             /\ pkt_count' = pkt_count]_vars

\* a datagram with the token of an earlier session was dropped while its
\* device holds a newer session
OldTokenRejectedWitness ==
    /\ lpc = "drop"
    /\ lmsg.token \in disclosed
    /\ \E s \in Slots :
          /\ controllers[s].device_id = lmsg.device_id
          /\ controllers[s].token > lmsg.token
          /\ controllers[s].token \in disclosed

\* C15: when phone_listener has stored an accepted datagram, the slot holds
\* that datagram's buttons, gyro, accel and source address, whatever client
\* timestamp it and the datagrams before it carried.
LastTelemetryWins ==
    [][(lpc = "touch" /\ lpc' # "touch" /\ llive)
          => /\ controllers'[lslot].buttons = lmsg.buttons
             /\ controllers'[lslot].gyro = lmsg.gyro
             /\ controllers'[lslot].accel = lmsg.accel
             /\ controllers'[lslot].addr = lmsg.addr]_vars

\* a datagram with a smaller client timestamp than the one stored before it
\* has been stored
LastTelemetryWinsWitness ==
    /\ lpc = "count"
    /\ controllers[lslot] # None
    /\ stamps[lslot][2] > 0
    /\ stamps[lslot][1] > stamps[lslot][2]

\* C16: while a slot keeps its session, its last_seen never decreases.
LastSeenNeverDecreases ==
    [][\A s \in Slots :
          (controllers[s] # None /\ controllers'[s] # None
               /\ controllers'[s].token = controllers[s].token)
              => last_seen'[s] >= last_seen[s]]_vars

\* C17: the active slot index is always one of 1 .. MAX_CONTROLLERS, whatever
\* the configuration file or the combo box held; every iteration of
\* bridge_loop uses the index as it is at that moment; an iteration that
\* finds the active slot empty sends no control line.
ActiveSlotValid ==
    /\ [](active \in 1 .. MAX_CONTROLLERS)
    /\ [][bticks' # bticks
            => IF Get(controllers, active - 1) = None
               THEN bslot' = NoSlot /\ nlines' = nlines /\ line' = line
               ELSE bslot' = active - 1 /\ nlines' = nlines + 1]_vars

\* an out-of-range choice was clamped to the last slot, which is empty while
\* slot 0 holds a session, and an iteration of bridge_loop has sent nothing
ActiveSlotValidWitness ==
    /\ active = MAX_CONTROLLERS
    /\ controllers[0] # None
    /\ controllers[MAX_CONTROLLERS - 1] = None
    /\ bticks > 0
    /\ bslot = NoSlot
    /\ nlines = 0

\* slot 0 is active and its session has button A pressed
AHeld ==
    /\ active = 1
    /\ controllers[0] # None
    /\ "A" \in controllers[0].buttons

\* the last control line contains A=1
LineHasA == \E i \in DOMAIN line : line[i] = <<"A", 1>>

\* C18: once slot 0 is active and holds a session whose accepted telemetry has
\* A pressed, and no control line with A=1 has been sent for it yet, a control
\* line with A=1 is sent, unless the button is released or the active slot
\* changes first (bridge_loop still running).
PressReachesDriver ==
    (AHeld /\ ~LineHasA /\ bticks < MaxBridgeTicks) ~> (LineHasA \/ ~AHeld)

\* device 1 was paired into slot 0 with a disclosed token, its telemetry with
\* A pressed was accepted, and the control line sent carries A=1
PressReachesDriverWitness ==
    /\ AHeld
    /\ controllers[0].device_id = 1
    /\ controllers[0].token \in disclosed
    /\ pkt_count[0] > 0
    /\ nlines > 0
    /\ line[1] = <<"A", 1>>

\* C19: while HOME stays held, pitch0 / yaw0 are captured at most once.
OneCapturePerHold == \A s \in Slots : captures[s] <= 1

\* C20: a tick that sees HOME released cancels the pending hold and leaves
\* pitch0 / yaw0 alone; a tick that sees HOME pressed starts the hold, or
\* leaves everything alone while less than RECENTER_HOLD_SEC have passed since
\* the hold started; the first tick that sees the threshold passed sets pitch0
\* and yaw0 to the pitch and yaw update_motion has just computed in that tick.
\* No other step changes pitch0, yaw0 or home_hold of a session.
RecenterAfterHold ==
    [][\A s \in Slots :
          (controllers[s] # None /\ controllers'[s] # None
               /\ controllers'[s].token = controllers[s].token)
          => LET c == controllers[s]
                 m == c.motion
                 n == controllers'[s].motion
                 u == update_motion(c, NowMs)
                 ticked == bticks' # bticks /\ active = s + 1
             IN  IF ~ticked
                 THEN n.pitch0 = m.pitch0 /\ n.yaw0 = m.yaw0 /\ n.home_hold = m.home_hold
                 ELSE IF "HOME" \notin c.buttons
                 THEN n.pitch0 = m.pitch0 /\ n.yaw0 = m.yaw0 /\ n.home_hold = NoHold
                 ELSE IF m.home_hold = NoHold
                 THEN n.pitch0 = m.pitch0 /\ n.yaw0 = m.yaw0 /\ n.home_hold = NowMs
                 ELSE IF NowMs - m.home_hold < RECENTER_HOLD_SEC
                 THEN n.pitch0 = m.pitch0 /\ n.yaw0 = m.yaw0 /\ n.home_hold = m.home_hold
                 ELSE captures[s] = 0 => (n.pitch0 = u.pitch /\ n.yaw0 = u.yaw)]_vars

\* HOME was held past the threshold while the controller turned: one capture,
\* of a pitch and a yaw that are not the initial ones
RecenterAfterHoldWitness ==
    \E s \in Slots :
        /\ controllers[s] # None
        /\ captures[s] = 1
        /\ controllers[s].motion.pitch0 # 0
        /\ controllers[s].motion.yaw0 # 0
        /\ controllers[s].motion.home_hold > NowMs

\* C29: whenever pair_server sends a PAIR_ACCEPT naming slot s and token T,
\* slot s holds at that moment a session of the requesting device with token T.
AcceptNamesLiveSession ==
    [][(reply' # reply /\ reply'.type = "PAIR_ACCEPT")
          => /\ controllers'[reply'.slot] # None
             /\ controllers'[reply'.slot].device_id = preq.device_id
             /\ controllers'[reply'.slot].token = reply'.token]_vars

\* C30: when phone_listener writes last_seen[slot] (line 365) or pkt_count[slot]
\* (line 371) for a datagram it has validated, the slot is not empty.
TelemetryWritesOccupiedSlot ==
    [][/\ (lpc = "touch" /\ lpc' = "count") => controllers[lslot] # None
       /\ (lpc = "store" /\ lpc' = "recv") => controllers[lslot] # None]_vars

\* C23: when compute_axes leaves the yaw at its upper limit it returns
\* RX = -32767 (INVERT_RX is set), and RX = 32767 at the lower limit.
StickAtYawLimit ==
    (called = "compute_axes" /\ controllers[0] # None)
        => /\ controllers[0].motion.yaw = YawLimit => axes[1] = 0 - StickMax
           /\ controllers[0].motion.yaw = 0 - YawLimit => axes[1] = StickMax

\* compute_axes has returned with the yaw at its upper limit
StickAtYawLimitWitness ==
    /\ called = "compute_axes"
    /\ controllers[0].motion.yaw = YawLimit
    /\ axes[1] = 0 - StickMax

\* C27: update_motion leaves yaw, pitch and the last-update time that
\* compute_axes integrates unchanged, and compute_axes leaves the pitch and the
\* last-update time that update_motion integrates unchanged.
MotionStatesApart ==
    [][LET m == controllers[0].motion
           n == controllers'[0].motion
       IN  /\ (called' = "update_motion" /\ bticks' = bticks + 1)
                 => (n.yaw = m.yaw /\ n.pitch = m.pitch /\ n.last_ts = m.last_ts)
           /\ (called' = "compute_axes" /\ bticks' = bticks + 1)
                 => (n.pitch = m.pitch /\ n.last_ts = m.last_ts)]_vars

\* C22: every control line bridge_loop sends carries RX and RY within
\* -32767 .. 32767, whatever gyro samples arrived and however long the ticks
\* were apart.
SticksInRange ==
    /\ \A i \in 1 .. Len(line) :
          line[i][1] \in {"RX", "RY"}
              => (line[i][2] >= 0 - StickMax /\ line[i][2] <= StickMax)
    /\ \A s \in Slots :
          (controllers[s] # None /\ called = "bridge_loop" /\ bslot = s)
              => /\ Abs(controllers[s].motion.yaw) <= YawLimit
                 /\ Abs(controllers[s].motion.pitch) <= PitchLimit

\* a line with both sticks at full deflection: the yaw and the pitch that
\* update_motion had integrated were beyond the limits
SticksInRangeWitness ==
    /\ \E i \in 1 .. Len(line) : line[i] = <<"RX", 0 - StickMax>>
    /\ \E i \in 1 .. Len(line) : line[i] = <<"RY", StickMax>>

\* the gyro sample is below the deadzone on every axis
GyroStill(g) == Abs(g.x) < DZ /\ Abs(g.y) < DZ /\ Abs(g.z) < DZ

\* C28: a tick that finds a gyro sample below 0.015 rad/s on every axis sends
\* the RX and RY of the tick before it.
StillPointerSteady ==
    [][(/\ nlines > 0
        /\ nlines' = nlines + 1
        /\ bslot = active - 1
        /\ GyroStill(controllers[bslot].gyro))
          => axes' = axes]_vars

\* C21: three samples with 3.0 m/s^2 along x, 0.1 s apart, for the active
\* slot make bridge_loop trigger one swing, not more.
ThreeSamplesOneSwing ==
    \A s \in Slots : pkt_count[s] = 3 => nswings[s] <= 1

\* the gyro sample has been held for HeldMs of ticks: the tick HeldMs after the
\* first one has just run
HeldElapsed ==
    /\ called = "bridge_loop"
    /\ bticks > 0
    /\ nwaits = bticks - 1
    /\ (bticks - 1) * pace = HeldMs

\* C24 as stated: gyro x at 0.1 rad/s for 1 s of ticks no further apart than
\* DT_MAX and an accelerometer vector of magnitude 9.81 leave the pitch at
\* 0.1 rad, give or take 0.001 rad.
PitchAfterSecondAtGravity ==
    (/\ HeldElapsed
     /\ pace <= DT_MAX
     /\ LET a == controllers[0].accel
        IN  a.x * a.x + a.y * a.y + a.z * a.z = Gravity * Gravity)
        => Abs(controllers[0].motion.pitch - 100 * HeldMs) <= 1000

\* C24: gyro x at 0.1 rad/s for 1 s of ticks between DT_MIN and DT_MAX apart
\* and an accelerometer vector outside the gravity band (no drift correction)
\* leave the pitch at 0.1 rad.
PitchAfterSecondOffGravity ==
    (/\ HeldElapsed
     /\ pace >= DT_MIN
     /\ pace <= DT_MAX
     /\ LET a == controllers[0].accel
            sq == a.x * a.x + a.y * a.y + a.z * a.z
        IN  \/ sq <= (Gravity - ACC_G_TOL) * (Gravity - ACC_G_TOL)
            \/ sq >= (Gravity + ACC_G_TOL) * (Gravity + ACC_G_TOL))
        => controllers[0].motion.pitch = 100 * HeldMs

\* a second of ticks 8 ms apart in free fall: 0.1 rad
PitchAfterSecondOffGravityWitness ==
    /\ HeldElapsed
    /\ pace = 8
    /\ controllers[0].accel = ZeroVec
    /\ controllers[0].motion.pitch = 100000

\* C26: when the 5 s window of a pairing request has passed without any reply,
\* the client is no longer PENDING (so that the next discovery announcement
\* makes it send a new request).
TimeoutLeavesPending ==
    cwait = "timeout" => pairing_state # "PENDING"

\* C25: once stop_evt is set, each of the six threads of start_threads
\* eventually leaves its loop, whether datagrams arrive or not.
StopEndsLoops ==
    stop_evt ~> (\A t \in Threads : tpc[t] = "exited")

\* all six loops have ended after a device had paired and bridge_loop had sent
\* control lines for it
StopEndsLoopsWitness ==
    /\ stop_evt
    /\ \A t \in Threads : tpc[t] = "exited"
    /\ controllers[0] # None
    /\ nlines > 0

\* C33: every control line names each driver button of WII_TO_BRIDGE exactly
\* once and ends with exactly one RX and one RY entry, also on a tick where a
\* swing is triggered.
LineNamesEachOnce ==
    line # NoLine
        => /\ \A k \in 1 .. Len(WII_TO_BRIDGE) :
                 Cardinality({i \in DOMAIN line : line[i][1] = WII_TO_BRIDGE[k][2]}) = 1
           /\ Cardinality({i \in DOMAIN line : line[i][1] = "RX"}) = 1
           /\ Cardinality({i \in DOMAIN line : line[i][1] = "RY"}) = 1
           /\ line[Len(line) - 1][1] = "RX"
           /\ line[Len(line)][1] = "RY"

\* C32: every accepted packet is counted in exactly one window.  A packet is
\* lost when line 396 zeroes a counter that is no longer the count line 395
\* reported; packets are counted twice when the store of line 371 writes over
\* a counter that is no longer the one it loaded.
CountedInOneWindow ==
    [][/\ (spc = "reset" /\ spc' # "reset") => pkt_count[sslot] = hz_est[sslot][1]
       /\ (lpc = "store" /\ lpc' = "recv") => pkt_count[lslot] = lcnt]_vars

\* C31: when bridge_loop sends a control line, the session it is derived from
\* occupies the active slot.
LineForSessionInActiveSlot ==
    [][nlines' = nlines + 1
          => /\ bslot = active - 1
             /\ controllers[bslot] # None
             /\ blive]_vars

====
